---- MODULE Spec2Model ----
(***************************************************************************)
(* A model of the usb2snes protocol client of usb2snes-uploader.py: the    *)
(* Usb2Snes class (attachment handshake, put_file, boot, list,             *)
(* check_file_exists) over one websocket.                                  *)
(*                                                                         *)
(* Strings are tuples of one-character strings, so that upper(), the       *)
(* substring test, startswith/endswith, posixpath.split and the hex        *)
(* formatting are computed character by character as the code does.        *)
(***************************************************************************)
EXTENDS Integers, Sequences, FiniteSets, TLC

VARIABLES
    socket,     \* self._socket's state: "open" or "closed"
    device,     \* self._device: None or a device name
    log,        \* every transport and local-file event so far, in order
    last,       \* the most recent call: operation, argument, outcome
    calls,      \* number of calls made on this client
    tasks,      \* per concurrent task: where its _list coroutine stands
    inbox,      \* frames the peer has sent that no recv() has taken yet
    run         \* main(): parsed arguments, position, locals

vars == <<socket, device, log, last, calls, tasks, inbox, run>>

\* ------------------------------------------------------------------ bounds
MaxOps == 2         \* calls made on one client
MaxDevs == 2        \* entries of a DeviceList response
MaxResp == 4        \* entries of a List response
MaxBlocks == 2      \* whole blocks in a local source file
MaxPathLen == 3     \* characters of an enumerated remote path

\* --------------------------------------------------------------- constants
BLOCK_SIZE == 1024

DIR_PATH_TYPE == <<"0">>

\* Python's None: a value that no string (tuple of characters) equals
None == <<"None">>

\* ----------------------------------------------------------------- strings
Last(s) == s[Len(s)]

Min(a, b) == IF a < b THEN a ELSE b

\* str.upper(), per character
UpperChar(c) ==
    CASE c = "s" -> "S"
      [] c = "d" -> "D"
      [] c = "n" -> "N"
      [] c = "e" -> "E"
      [] c = "x" -> "X"
      [] OTHER -> c

Upper(s) == [i \in 1..Len(s) |-> UpperChar(s[i])]

\* `sub in s`
Contains(s, sub) ==
    \E i \in 0..(Len(s) - Len(sub)) : SubSeq(s, i + 1, i + Len(sub)) = sub

StartsWith(s, c) == Len(s) > 0 /\ s[1] = c

EndsWith(s, c) == Len(s) > 0 /\ Last(s) = c

\* All tuples over `alphabet` of length at most n
SeqsUpTo(alphabet, n) == UNION {[1..k -> alphabet] : k \in 0..n}

\* --------------------------------------------------------- events and outcomes
TextFrame(opcode, operands) ==
    [ev |-> "send_text", opcode |-> opcode, operands |-> operands]

\* a binary frame carrying the n bytes of the source that start at offset off
BinFrame(off, n) == [ev |-> "send_bin", off |-> off, len |-> n]

SendFailed == [ev |-> "send_failed"]

RecvFrame(reply) == [ev |-> "recv", reply |-> reply]

RecvFailed == [ev |-> "recv_failed"]

\* What the peer puts in the next inbound frame
Results(rs) == [kind |-> "results", results |-> rs]

BadJson == [kind |-> "badjson"]

NoResults == [kind |-> "noresults"]

Dropped == [kind |-> "dropped"]

\* The outcome of one call: the events it appended, how it ended, what it
\* returned, and the client's fields afterwards.
Outcome(events, result, ret, dev, sock) ==
    [events |-> events, result |-> result, ret |-> ret, device |-> dev, socket |-> sock]

Raise(events, error) == Outcome(events, error, None, device, socket)

\* An exception out of socket.send / socket.recv: the connection is gone.
TransportError(events) == Outcome(events, "TransportError", None, device, "closed")

\* ------------------------------------------------------------------ guards
SocketUnusable == socket # "open"

\* _assert_attached without its device test
AssertAttached_NoDeviceTest == IF SocketUnusable THEN "ConnectionClosed" ELSE "ok"

\* _assert_attached with its two tests in the other order
AssertAttached_DeviceFirst ==
    IF device = None THEN "NotAttached"
    ELSE IF SocketUnusable THEN "ConnectionClosed"
    ELSE "ok"

\* _assert_attached: the socket test comes first, then the device test
_assert_attached ==
    IF SocketUnusable THEN "ConnectionClosed"
    ELSE IF device = None THEN "NotAttached"
    ELSE "ok"

\* the guard of _request_not_attached
_assert_open == IF SocketUnusable THEN "ConnectionClosed" ELSE "ok"

\* --------------------------------------------------------------- attachment
MARKER == <<"S", "D", "2", "S", "N", "E", "S">>

\* the test with a marker one character short
IsMatch_ShortMarker(d) == Contains(Upper(d), SubSeq(MARKER, 1, Len(MARKER) - 1))

IsMatch(d) == Contains(Upper(d), MARKER)

\* the loop without its break: the last matching entry wins
FirstMatch_NoBreak(device_list) ==
    LET hits == {i \in 1..Len(device_list) : IsMatch(device_list[i])}
    IN  IF hits = {} THEN None
        ELSE device_list[CHOOSE i \in hits : \A j \in hits : j <= i]

\* the for/break loop: the first entry, in list order, that matches
FirstMatch(device_list) ==
    LET hits == {i \in 1..Len(device_list) : IsMatch(device_list[i])}
    IN  IF hits = {} THEN None
        ELSE device_list[CHOOSE i \in hits : \A j \in hits : i <= j]

\* find_and_attach_device recording the device before it sends Attach
FindAndAttach_RecordFirst(reply, sendFault) ==
    IF _assert_open # "ok" THEN Raise(<<>>, "ConnectionClosed")
    ELSE IF sendFault = 1 THEN TransportError(<<SendFailed>>)
    ELSE
    LET sent1 == <<TextFrame("DeviceList", <<>>)>> IN
    IF reply.kind = "dropped" THEN TransportError(sent1 \o <<RecvFailed>>)
    ELSE IF reply.kind # "results" THEN Raise(sent1 \o <<RecvFrame(reply)>>, "ProtocolError")
    ELSE
    LET device_list == reply.results
        got == sent1 \o <<RecvFrame(reply)>>
        d == FirstMatch(device_list)
    IN  IF d = None
        THEN Outcome(got, "DeviceNotFound", device_list, device, socket)
        ELSE IF sendFault = 2
        THEN Outcome(got \o <<SendFailed>>, "TransportError", None, d, "closed")
        ELSE Outcome(got \o <<TextFrame("Attach", <<d>>)>>, "ok", d, d, socket)

\* find_and_attach_device dropping the attachment when no entry matches
FindAndAttach_ForgetOnNoMatch(reply, sendFault) ==
    IF _assert_open # "ok" THEN Raise(<<>>, "ConnectionClosed")
    ELSE IF sendFault = 1 THEN TransportError(<<SendFailed>>)
    ELSE
    LET sent1 == <<TextFrame("DeviceList", <<>>)>> IN
    IF reply.kind = "dropped" THEN TransportError(sent1 \o <<RecvFailed>>)
    ELSE IF reply.kind # "results" THEN Raise(sent1 \o <<RecvFrame(reply)>>, "ProtocolError")
    ELSE
    LET device_list == reply.results
        got == sent1 \o <<RecvFrame(reply)>>
        d == FirstMatch(device_list)
    IN  IF d = None
        THEN Outcome(got, "DeviceNotFound", device_list, None, socket)
        ELSE IF sendFault = 2 THEN TransportError(got \o <<SendFailed>>)
        ELSE Outcome(got \o <<TextFrame("Attach", <<d>>)>>, "ok", d, d, socket)

\* find_and_attach_device awaiting a response to its Attach command
FindAndAttach_AwaitAttachReply(reply, sendFault) ==
    IF _assert_open # "ok" THEN Raise(<<>>, "ConnectionClosed")
    ELSE IF sendFault = 1 THEN TransportError(<<SendFailed>>)
    ELSE
    LET sent1 == <<TextFrame("DeviceList", <<>>)>> IN
    IF reply.kind = "dropped" THEN TransportError(sent1 \o <<RecvFailed>>)
    ELSE IF reply.kind # "results" THEN Raise(sent1 \o <<RecvFrame(reply)>>, "ProtocolError")
    ELSE
    LET device_list == reply.results
        got == sent1 \o <<RecvFrame(reply)>>
        d == FirstMatch(device_list)
    IN  IF d = None
        THEN Outcome(got, "DeviceNotFound", device_list, device, socket)
        ELSE IF sendFault = 2 THEN TransportError(got \o <<SendFailed>>)
        ELSE Outcome(got \o <<TextFrame("Attach", <<d>>), RecvFrame(reply)>>,
                     "ok", d, d, socket)

\* find_and_attach_device; sendFault = k makes the call's k-th send raise
find_and_attach_device(reply, sendFault) ==
    IF _assert_open # "ok" THEN Raise(<<>>, "ConnectionClosed")
    ELSE IF sendFault = 1 THEN TransportError(<<SendFailed>>)
    ELSE
    LET sent1 == <<TextFrame("DeviceList", <<>>)>> IN
    IF reply.kind = "dropped" THEN TransportError(sent1 \o <<RecvFailed>>)
    ELSE IF reply.kind # "results" THEN Raise(sent1 \o <<RecvFrame(reply)>>, "ProtocolError")
    ELSE
    LET device_list == reply.results
        got == sent1 \o <<RecvFrame(reply)>>
        d == FirstMatch(device_list)
    IN  IF d = None
        THEN Outcome(got, "DeviceNotFound", device_list, device, socket)
        ELSE IF sendFault = 2 THEN TransportError(got \o <<SendFailed>>)
        ELSE Outcome(got \o <<TextFrame("Attach", <<d>>)>>, "ok", d, d, socket)

\* ------------------------------------------------------------------- boot
\* boot validating its path as put_file does
Boot_Validating(usb2snes_path, sendFault) ==
    IF _assert_attached # "ok" THEN Raise(<<>>, _assert_attached)
    ELSE IF ~(/\ StartsWith(usb2snes_path, "/")
              /\ \A i \in 1..Len(usb2snes_path) : usb2snes_path[i] # "\\"
              /\ (EndsWith(usb2snes_path, "/") => usb2snes_path = <<"/">>))
    THEN Raise(<<>>, "InvalidPath")
    ELSE IF sendFault = 1 THEN TransportError(<<SendFailed>>)
    ELSE Outcome(<<TextFrame("Boot", <<usb2snes_path>>)>>, "ok", None, device, socket)

boot(usb2snes_path, sendFault) ==
    IF _assert_attached # "ok" THEN Raise(<<>>, _assert_attached)
    ELSE IF sendFault = 1 THEN TransportError(<<SendFailed>>)
    ELSE Outcome(<<TextFrame("Boot", <<usb2snes_path>>)>>, "ok", None, device, socket)

\* ------------------------------------------------------------- remote paths
\* _check_usb2snes_path without its trailing-slash test
CheckPath_NoTrailingTest(path) ==
    IF \E i \in 1..Len(path) : path[i] = "\\" THEN "InvalidPath"
    ELSE IF ~StartsWith(path, "/") THEN "InvalidPath"
    ELSE "ok"

\* _check_usb2snes_path with the last test lacking `and path != '/'`
CheckPath_RootRejected(path) ==
    IF \E i \in 1..Len(path) : path[i] = "\\" THEN "InvalidPath"
    ELSE IF ~StartsWith(path, "/") THEN "InvalidPath"
    ELSE IF EndsWith(path, "/") THEN "InvalidPath"
    ELSE "ok"

\* _check_usb2snes_path: three tests, each raising RuntimeError
_check_usb2snes_path(path) ==
    IF \E i \in 1..Len(path) : path[i] = "\\" THEN "InvalidPath"
    ELSE IF ~StartsWith(path, "/") THEN "InvalidPath"
    ELSE IF EndsWith(path, "/") /\ path # <<"/">> THEN "InvalidPath"
    ELSE "ok"

\* str.rfind("/") + 1: the length of the prefix ending at the last "/"
RFindSep(p) ==
    LET at == {i \in 1..Len(p) : p[i] = "/"}
    IN  IF at = {} THEN 0 ELSE CHOOSE i \in at : \A j \in at : j <= i

\* str.rstrip("/")
RECURSIVE RStripSep(_)
RStripSep(s) ==
    IF Len(s) > 0 /\ Last(s) = "/" THEN RStripSep(SubSeq(s, 1, Len(s) - 1)) ELSE s

\* posixpath.split: <<head, tail>>
PosixSplit(p) ==
    LET i == RFindSep(p)
        head == SubSeq(p, 1, i)
        tail == SubSeq(p, i + 1, Len(p))
        allSeps == \A j \in 1..Len(head) : head[j] = "/"
    IN  IF head # <<>> /\ ~allSeps THEN <<RStripSep(head), tail>> ELSE <<head, tail>>

\* ------------------------------------------------------------------ listing
\* _list: the empty path becomes "/", the path is validated, then
\* _request_response('List', path): guard, send, receive.
\* On success ret is the response (the Results value).
_list(p, reply, sendFault) ==
    LET path == IF p = <<>> THEN <<"/">> ELSE p IN
    IF _check_usb2snes_path(path) # "ok" THEN Raise(<<>>, "InvalidPath")
    ELSE IF _assert_attached # "ok" THEN Raise(<<>>, _assert_attached)
    ELSE IF sendFault = 1 THEN TransportError(<<SendFailed>>)
    ELSE
    LET sent1 == <<TextFrame("List", <<path>>)>> IN
    IF reply.kind = "dropped" THEN TransportError(sent1 \o <<RecvFailed>>)
    ELSE IF reply.kind # "results" THEN Raise(sent1 \o <<RecvFrame(reply)>>, "ProtocolError")
    ELSE Outcome(sent1 \o <<RecvFrame(reply)>>, "ok", reply.results, device, socket)

\* _list_iter: raises when the length is odd, else yields the pairs in order
_list_iter(response) ==
    IF Len(response) % 2 # 0 THEN [raised |-> TRUE, pairs |-> <<>>]
    ELSE [raised |-> FALSE,
          pairs |-> [i \in 1..(Len(response) \div 2) |->
                        <<response[2 * i - 1], response[2 * i]>>]]

\* the classification loop inserting each name at the front of its list
RECURSIVE Collect_Prepend(_, _)
Collect_Prepend(pairs, wantDir) ==
    IF pairs = <<>> THEN <<>>
    ELSE LET path_type == Head(pairs)[1]
             fn == Head(pairs)[2]
             isDir == (path_type = <<"0">>)
         IN  Collect_Prepend(Tail(pairs), wantDir) \o (IF isDir = wantDir THEN <<fn>> ELSE <<>>)

\* the names of `pairs`, in order, that are directories (wantDir) or are not
RECURSIVE Collect(_, _)
Collect(pairs, wantDir) ==
    IF pairs = <<>> THEN <<>>
    ELSE LET path_type == Head(pairs)[1]
             fn == Head(pairs)[2]
             isDir == (path_type = DIR_PATH_TYPE)
         IN  (IF isDir = wantDir THEN <<fn>> ELSE <<>>) \o Collect(Tail(pairs), wantDir)

\* list: ret is <<dirs, files>>
list(path, reply, sendFault) ==
    LET r == _list(path, reply, sendFault) IN
    IF r.result # "ok" THEN r
    ELSE LET it == _list_iter(r.ret)
             pairs == it.pairs
         IN
         IF it.raised THEN Raise(r.events, "ProtocolError")
         ELSE Outcome(r.events, "ok", <<Collect(pairs, TRUE), Collect(pairs, FALSE)>>,
                      device, socket)

\* check_file_exists reporting a file when any entry of that name is one
CheckFileExists_AnyHit(path, reply, sendFault) ==
    LET dirname == PosixSplit(path)[1]
        basename == PosixSplit(path)[2]
        r == _list(dirname, reply, sendFault)
    IN  IF r.result # "ok" THEN r
        ELSE LET it == _list_iter(r.ret)
                 pairs == it.pairs
             IN
             IF it.raised THEN Raise(r.events, "ProtocolError")
             ELSE Outcome(r.events, "ok",
                          \E i \in 1..Len(pairs) :
                                pairs[i][2] = basename /\ pairs[i][1] # DIR_PATH_TYPE,
                          device, socket)

\* check_file_exists: split, list the parent, return at the first name match
check_file_exists(path, reply, sendFault) ==
    LET dirname == PosixSplit(path)[1]
        basename == PosixSplit(path)[2]
        r == _list(dirname, reply, sendFault)
    IN  IF r.result # "ok" THEN r
        ELSE LET it == _list_iter(r.ret)
                 pairs == it.pairs
             IN
             IF it.raised THEN Raise(r.events, "ProtocolError")
             ELSE LET hits == {i \in 1..Len(pairs) : pairs[i][2] = basename} IN
                  IF hits = {} THEN Outcome(r.events, "ok", FALSE, device, socket)
                  ELSE LET first == CHOOSE i \in hits : \A j \in hits : i <= j IN
                       Outcome(r.events, "ok", pairs[first][1] # DIR_PATH_TYPE,
                               device, socket)

\* ---------------------------------------------------------------- put_file
StatOk(size) == [ev |-> "stat", size |-> size]

StatFailed == [ev |-> "stat_failed"]

OpenOk == [ev |-> "open"]

OpenFailed == [ev |-> "open_failed"]

ReadBlock(off, n) == [ev |-> "read", off |-> off, len |-> n]

HexDigits == <<"0", "1", "2", "3", "4", "5", "6", "7", "8", "9",
               "a", "b", "c", "d", "e", "f">>

\* f"{n}": the size written in decimal
RECURSIVE Hex_Decimal(_)
Hex_Decimal(n) ==
    IF n < 10 THEN <<HexDigits[n + 1]>>
    ELSE Hex_Decimal(n \div 10) \o <<HexDigits[(n % 10) + 1]>>

\* f"{n:x}"
RECURSIVE Hex(_)
Hex(n) ==
    IF n < 16 THEN <<HexDigits[n + 1]>>
    ELSE Hex(n \div 16) \o <<HexDigits[(n % 16) + 1]>>

\* a read that asks for one byte less than the block size
ReadLen_OneShort(remaining) == Min(remaining, BLOCK_SIZE - 1)

\* fp.read(BLOCK_SIZE) on a file with `remaining` bytes left
ReadLen(remaining) == Min(remaining, BLOCK_SIZE)

\* the test after the loop written as transferred < file_size
SizeMismatch_OnlyShort(transferred, file_size) == transferred < file_size

\* the test after the loop: transferred != file_size
SizeMismatch(transferred, file_size) == transferred # file_size

\* The read/send loop going on to the next block after a send that raised
RECURSIVE Stream_SkipFailed(_, _, _, _)
Stream_SkipFailed(remaining, transferred, k, sendFault) ==
    LET n == ReadLen(remaining)
        block == ReadBlock(transferred, n)
    IN
    IF n = 0 THEN [events |-> <<block>>, transferred |-> transferred, failed |-> FALSE]
    ELSE LET rest == Stream_SkipFailed(remaining - n, transferred + n, k + 1, sendFault) IN
         IF sendFault = k
         THEN [events |-> <<block, SendFailed>> \o rest.events,
               transferred |-> rest.transferred - n, failed |-> TRUE]
         ELSE [events |-> <<block, BinFrame(transferred, n)>> \o rest.events,
               transferred |-> rest.transferred, failed |-> rest.failed]

\* The read/send loop: read a block; while it is not empty send it, add its
\* length to `transferred`, read the next.  The file position equals
\* `transferred`, every block read so far having been sent.  k is the index
\* of the next send among the call's sends (the PutFile command was the first).
RECURSIVE Stream(_, _, _, _)
Stream(remaining, transferred, k, sendFault) ==
    LET n == ReadLen(remaining)
        block == ReadBlock(transferred, n)
    IN
    IF n = 0 THEN [events |-> <<block>>, transferred |-> transferred, failed |-> FALSE]
    ELSE IF sendFault = k
    THEN [events |-> <<block, SendFailed>>, transferred |-> transferred, failed |-> TRUE]
    ELSE LET rest == Stream(remaining - n, transferred + n, k + 1, sendFault) IN
         [events |-> <<block, BinFrame(transferred, n)>> \o rest.events,
          transferred |-> rest.transferred, failed |-> rest.failed]

\* A local source: whether stat works, whether open works, the st_size stat
\* reports, and the number of bytes the reads deliver.
Source(statable, readable, size, actual) ==
    [statable |-> statable, readable |-> readable, size |-> size, actual |-> actual]

\* put_file sending the PutFile command before it opens the source
PutFile_SendBeforeOpen(src, dest_filename, sendFault, dropDuring) ==
    IF _assert_attached # "ok" THEN Raise(<<>>, _assert_attached)
    ELSE IF _check_usb2snes_path(dest_filename) # "ok" THEN Raise(<<>>, "InvalidPath")
    ELSE IF ~src.statable THEN Raise(<<StatFailed>>, "FileError")
    ELSE
    LET file_size == src.size
        e1 == <<StatOk(file_size)>>
    IN
    IF dropDuring THEN Outcome(e1, "ConnectionClosed", None, device, "closed")
    ELSE IF sendFault = 1 THEN TransportError(e1 \o <<SendFailed>>)
    ELSE
    LET e2 == e1 \o <<TextFrame("PutFile", <<dest_filename, Hex(file_size)>>)>> IN
    IF ~src.readable THEN Raise(e2 \o <<OpenFailed>>, "FileError")
    ELSE
    LET e3 == e2 \o <<OpenOk>>
        s == Stream(src.actual, 0, 2, sendFault)
    IN
    IF s.failed THEN TransportError(e3 \o s.events)
    ELSE IF SizeMismatch(s.transferred, file_size) THEN Raise(e3 \o s.events, "TransferSizeMismatch")
    ELSE Outcome(e3 \o s.events, "ok", None, device, socket)

\* put_file; dropDuring: the connection closes while stat/open are awaited
put_file(src, dest_filename, sendFault, dropDuring) ==
    IF _assert_attached # "ok" THEN Raise(<<>>, _assert_attached)
    ELSE IF _check_usb2snes_path(dest_filename) # "ok" THEN Raise(<<>>, "InvalidPath")
    ELSE IF ~src.statable THEN Raise(<<StatFailed>>, "FileError")
    ELSE
    LET file_size == src.size
        e1 == <<StatOk(file_size)>>
    IN
    IF ~src.readable THEN Raise(e1 \o <<OpenFailed>>, "FileError")
    ELSE
    LET e2 == e1 \o <<OpenOk>> IN
    IF dropDuring THEN Outcome(e2, "ConnectionClosed", None, device, "closed")
    ELSE IF sendFault = 1 THEN TransportError(e2 \o <<SendFailed>>)
    ELSE
    LET e3 == e2 \o <<TextFrame("PutFile", <<dest_filename, Hex(file_size)>>)>>
        s == Stream(src.actual, 0, 2, sendFault)
    IN
    IF s.failed THEN TransportError(e3 \o s.events)
    ELSE IF SizeMismatch(s.transferred, file_size) THEN Raise(e3 \o s.events, "TransferSizeMismatch")
    ELSE Outcome(e3 \o s.events, "ok", None, device, socket)

\* ------------------------------------------------------------------ inputs
\* Device names a DeviceList response may carry: one that lacks the last
\* character of the marker, one that starts with it, and one that holds it
\* in mixed case after another character
DevOther == <<"S", "D", "2", "S", "N", "E">>
DevUpper == <<"S", "D", "2", "S", "N", "E", "S", "_", "X">>
DevMixed == <<"x", "S", "d", "2", "s", "n", "E", "s">>

Devices == {DevOther, DevUpper, DevMixed}

Malformed == {BadJson, NoResults, Dropped}

DeviceReplies == {Results(l) : l \in SeqsUpTo(Devices, MaxDevs)} \cup Malformed

GoodDeviceReply == Results(<<DevOther, DevUpper>>)

\* Remote paths
PathChars == {"/", "\\", "a"}

AllPaths == SeqsUpTo(PathChars, MaxPathLen)

PRoot == <<"/">>
PFile == <<"/", "a">>
PTrail == <<"/", "a", "/">>
PRel == <<"a">>
PDeep == <<"/", "a", "/", "a">>

FewPaths == {PFile, PTrail}

\* List responses: type tags and names drawn from the same three strings
ListAtoms == {<<"0">>, <<"1">>, <<"a">>}

ListReplies == {Results(l) : l \in SeqsUpTo(ListAtoms, MaxResp)} \cup Malformed

FewListReplies == {Results(<<<<"1">>, <<"a">>>>), Results(<<<<"0">>>>), Dropped}

\* Local sources
FileSizes == {k * BLOCK_SIZE + r : k \in 0..MaxBlocks, r \in {0, 452}}

Sources ==
    {Source(TRUE, TRUE, n, m) : n \in FileSizes, m \in FileSizes}
    \cup {Source(FALSE, FALSE, 0, 0), Source(TRUE, FALSE, 452, 452)}

FewSources == {Source(TRUE, TRUE, 452, 452), Source(TRUE, TRUE, 452, 0),
               Source(TRUE, FALSE, 452, 452)}

\* a put_file call makes at most MaxBlocks + 2 sends
SendFaults == 0..(MaxBlocks + 2)

\* ------------------------------------------------- tasks sharing a client
Tasks == {"A", "B"}

IdleTask ==
    [pc |-> "idle", path |-> <<>>, sentAt |-> 0, recvAt |-> 0,
     got |-> "none", result |-> "none"]

\* _request with a test that no other task's request is outstanding
Request_OneOutstanding(t) ==
    IF \E u \in Tasks \ {t} : tasks[u].pc = "awaiting" THEN "Busy"
    ELSE _assert_attached

\* _request before its send, called by task t: the one test is
\* _assert_attached; nothing records that another task awaits a response
_request(t) == _assert_attached

\* ------------------------------------------------------------------- main
\* the parsed command line
Args(force, ignore, do_boot, usb2snes_filename) ==
    [force |-> force, ignore |-> ignore, boot |-> do_boot,
     usb2snes_filename |-> usb2snes_filename]

NewRun(args) ==
    [pc |-> "attach", args |-> args, file_exists |-> "unset",
     put |-> "unset", recheck |-> "unset", error |-> "none"]

\* main is not running
NoRun == [NewRun(Args(FALSE, FALSE, FALSE, <<>>)) EXCEPT !.pc = "off"]

\* the first existence check decides with ignore what it decides with force
DoUpload_IgnoreForces(file_exists, force, ignore) ==
    IF ~file_exists THEN "upload"
    ELSE IF force \/ ignore THEN "upload"
    ELSE "raise"

\* do_upload, or the raise, once the first existence check has returned
DoUpload(file_exists, force, ignore) ==
    LET do_upload == ~file_exists IN
    IF file_exists
    THEN IF force THEN "upload"
         ELSE IF ignore THEN "skip"
         ELSE "raise"
    ELSE IF do_upload THEN "upload" ELSE "skip"

\* main going on whatever the existence check after the upload returned
Uploaded_Unchecked(exists) == TRUE

\* the test after the upload: the check did not return False
Uploaded(exists) == ~(exists = FALSE)

\* ----------------------------------------------------------------- actions
\* One call of a public operation, run to its return or its exception
\* What an awaited method leaves behind: fields, transport history, outcome
Perform(op, arg, out) ==
    /\ log' = log \o out.events
    /\ device' = out.device
    /\ socket' = out.socket
    /\ last' = [op |-> op, arg |-> arg, result |-> out.result, ret |-> out.ret,
                start |-> Len(log)]

Call(op, arg, outcome) ==
    LET out == outcome IN
    /\ calls < MaxOps
    /\ calls' = calls + 1
    /\ Perform(op, arg, out)
    /\ UNCHANGED <<tasks, inbox, run>>

\* A freshly constructed client on a connected socket
InitClient ==
    /\ socket = "open"
    /\ device = None
    /\ log = <<>>
    /\ last = [op |-> "init", arg |-> None, result |-> "ok", ret |-> None, start |-> 0]
    /\ calls = 0

Init ==
    /\ InitClient
    /\ tasks = [t \in Tasks |-> IdleTask]
    /\ inbox = <<>>
    /\ run = NoRun

\* The peer (or the network) closes the connection between two calls.
Close ==
    /\ socket = "open"
    /\ socket' = "closed"
    /\ UNCHANGED <<device, log, last, calls, tasks, inbox, run>>

DoAttach(replies, faults) ==
    \E reply \in replies, f \in faults :
        Call("find_and_attach_device", None, find_and_attach_device(reply, f))

DoPut(sources, paths, faults, drops) ==
    \E src \in sources, p \in paths, f \in faults, drop \in drops :
        Call("put_file", p, put_file(src, p, f, drop))

DoBoot(paths, faults) ==
    \E p \in paths, f \in faults : Call("boot", p, boot(p, f))

DoList(paths, replies, faults) ==
    \E p \in paths, reply \in replies, f \in faults :
        Call("list", p, list(p, reply, f))

DoExists(paths, replies, faults) ==
    \E p \in paths, reply \in replies, f \in faults :
        Call("check_file_exists", p, check_file_exists(p, reply, f))

\* --- a session: every operation, the handshake with every device list
Attach == DoAttach(DeviceReplies, 0..2)

PutFile == DoPut(FewSources, FewPaths, {0, 2}, {FALSE})

Boot == DoBoot(FewPaths, {0, 1})

List == DoList(FewPaths, FewListReplies, {0})

CheckFileExists == DoExists(FewPaths, FewListReplies, {0})

Next == Attach \/ PutFile \/ Boot \/ List \/ CheckFileExists \/ Close

Spec == Init /\ [][Next]_vars

\* --- the handshake once, then listings with every response
AttachGood == DoAttach({GoodDeviceReply}, {0})

ListAny == DoList({PRoot}, ListReplies, {0, 1})

NextList == AttachGood \/ ListAny \/ Close

SpecList == Init /\ [][NextList]_vars

\* --- the handshake once, then existence checks with every response
\* type tags and names of the entries: "a" is a name, and a tag other than "0"
ExistsAtoms == {<<"0">>, <<"a">>}

ExistsReplies == {Results(l) : l \in SeqsUpTo(ExistsAtoms, MaxResp)} \cup Malformed

ExistsAny == DoExists({PRel, PDeep}, ExistsReplies, {0, 1})

NextExists == AttachGood \/ ExistsAny \/ Close

SpecExists == Init /\ [][NextExists]_vars

\* --- the handshake once, then uploads of every source
PutAny == DoPut(Sources, FewPaths, SendFaults, BOOLEAN)

NextPut == AttachGood \/ PutAny \/ Close

SpecPut == Init /\ [][NextPut]_vars

\* --- the handshake once, then every operation with every path
PutPath == DoPut({Source(TRUE, TRUE, 452, 452)}, AllPaths, {0}, {FALSE})

BootPath == DoBoot(AllPaths, {0, 1})

ListPath == DoList(AllPaths, {Results(<<<<"1">>, <<"a">>>>)}, {0})

ExistsPath == DoExists(AllPaths, {Results(<<<<"1">>, <<"a">>>>)}, {0})

NextPath == AttachGood \/ PutPath \/ BootPath \/ ListPath \/ ExistsPath \/ Close

SpecPath == Init /\ [][NextPath]_vars

\* --- two tasks calling _list on one client, their awaits interleaving
TaskPaths == {PFile, PTrail}

TaskReplies == {Results(<<<<"1">>, <<"a">>>>), Results(<<>>)}

SetTask(t, pc, path, result) ==
    tasks' = [tasks EXCEPT ![t] = [@ EXCEPT !.pc = pc, !.path = path, !.result = result]]

\* _list up to the end of _request: path check, guard, send.  The peer
\* answers each List command once, so its reply joins the inbound frames.
TaskRequest(t) ==
    /\ tasks[t].pc = "idle"
    /\ \E p \in TaskPaths, reply \in TaskReplies :
        LET path == IF p = <<>> THEN <<"/">> ELSE p IN
        IF _check_usb2snes_path(path) # "ok"
        THEN /\ SetTask(t, "raised", path, "InvalidPath")
             /\ UNCHANGED <<log, inbox>>
        ELSE IF _request(t) # "ok"
        THEN /\ SetTask(t, "raised", path, _request(t))
             /\ UNCHANGED <<log, inbox>>
        ELSE /\ log' = Append(log, TextFrame("List", <<path>>))
             /\ inbox' = Append(inbox, [for |-> t, reply |-> reply])
             /\ tasks' = [tasks EXCEPT ![t] = [@ EXCEPT !.pc = "awaiting", !.path = path,
                                                          !.sentAt = Len(log) + 1]]
    /\ UNCHANGED <<socket, device, last, calls, run>>

\* _response: recv() hands over the oldest inbound frame
TaskResponse(t) ==
    /\ tasks[t].pc = "awaiting"
    /\ socket = "open"
    /\ inbox # <<>>
    /\ LET m == Head(inbox) IN
        /\ log' = Append(log, RecvFrame(m.reply))
        /\ inbox' = Tail(inbox)
        /\ tasks' = [tasks EXCEPT ![t] =
                        [@ EXCEPT !.pc = "returned", !.got = m.for,
                                  !.recvAt = Len(log) + 1,
                                  !.result = IF m.reply.kind = "results" THEN "ok"
                                             ELSE "ProtocolError"]]
    /\ UNCHANGED <<socket, device, last, calls, run>>

\* _response: recv() raises, the connection being closed or the transport
\* refusing a second waiter
TaskRecvRaises(t) ==
    /\ tasks[t].pc = "awaiting"
    /\ \/ socket # "open"
       \/ \E u \in Tasks \ {t} : tasks[u].pc = "awaiting"
    /\ log' = Append(log, RecvFailed)
    /\ SetTask(t, "raised", tasks[t].path, "TransportError")
    /\ UNCHANGED <<socket, device, last, calls, inbox, run>>

Request == \E t \in Tasks : TaskRequest(t)

Response == \E t \in Tasks : TaskResponse(t)

RecvRaises == \E t \in Tasks : TaskRecvRaises(t)

NextTasks == AttachGood \/ Request \/ Response \/ RecvRaises \/ Close

SpecTasks == Init /\ [][NextTasks]_vars

\* --- main: one run of the command line
MainPaths == {PFile, PTrail}

MainArgs ==
    {Args(f, i, b, p) : f \in BOOLEAN, i \in BOOLEAN, b \in BOOLEAN, p \in MainPaths}
    \ {Args(TRUE, TRUE, b, p) : b \in BOOLEAN, p \in MainPaths}

MainDeviceReplies == {GoodDeviceReply, Results(<<DevOther>>), Dropped}

MainListReplies == {Results(<<<<"1">>, <<"a">>>>), Results(<<>>), BadJson}

InitMain ==
    /\ InitClient
    /\ tasks = [t \in Tasks |-> IdleTask]
    /\ inbox = <<>>
    /\ run \in {NewRun(a) : a \in MainArgs}

\* an exception leaving main
Fail(error) == [run EXCEPT !.pc = "failed", !.error = error]

\* where main goes once the upload is done with or skipped
AfterUpload == IF run.args.boot THEN "boot" ELSE "done"

\* device = await usb2snes.find_and_attach_device()
MainAttach ==
    /\ run.pc = "attach"
    /\ \E reply \in MainDeviceReplies :
        LET out == find_and_attach_device(reply, 0) IN
        /\ Perform("find_and_attach_device", None, out)
        /\ run' = IF out.result = "ok" THEN [run EXCEPT !.pc = "check"]
                  ELSE Fail(out.result)
    /\ UNCHANGED <<calls, tasks, inbox>>

\* file_exists = await usb2snes.check_file_exists(usb2snes_filename), then
\* the decision taken on it
MainCheck ==
    /\ run.pc = "check"
    /\ \E reply \in MainListReplies :
        LET out == check_file_exists(run.args.usb2snes_filename, reply, 0) IN
        /\ Perform("check_file_exists", run.args.usb2snes_filename, out)
        /\ run' =
            IF out.result # "ok" THEN Fail(out.result)
            ELSE LET file_exists == out.ret
                     d == DoUpload(file_exists, run.args.force, run.args.ignore)
                     r == [run EXCEPT !.file_exists = IF file_exists THEN "True" ELSE "False"]
                 IN  IF d = "raise"
                     THEN [r EXCEPT !.pc = "failed", !.error = "FileExists"]
                     ELSE IF d = "upload" THEN [r EXCEPT !.pc = "put"]
                     ELSE [r EXCEPT !.pc = AfterUpload]
    /\ UNCHANGED <<calls, tasks, inbox>>

\* await usb2snes.put_file(args.source_filename, usb2snes_filename)
MainPut ==
    /\ run.pc = "put"
    /\ \E src \in FewSources, f \in {0, 2} :
        LET out == put_file(src, run.args.usb2snes_filename, f, FALSE) IN
        /\ Perform("put_file", run.args.usb2snes_filename, out)
        /\ run' = IF out.result = "ok"
                  THEN [run EXCEPT !.pc = "recheck", !.put = "ok"]
                  ELSE [Fail(out.result) EXCEPT !.put = out.result]
    /\ UNCHANGED <<calls, tasks, inbox>>

\* if await usb2snes.check_file_exists(usb2snes_filename) == False: raise
MainRecheck ==
    /\ run.pc = "recheck"
    /\ \E reply \in MainListReplies :
        LET out == check_file_exists(run.args.usb2snes_filename, reply, 0) IN
        /\ Perform("check_file_exists", run.args.usb2snes_filename, out)
        /\ run' =
            IF out.result # "ok"
            THEN [Fail(out.result) EXCEPT !.recheck = "raised"]
            ELSE LET r == [run EXCEPT !.recheck = IF out.ret THEN "True" ELSE "False"]
                 IN  IF Uploaded(out.ret) THEN [r EXCEPT !.pc = AfterUpload]
                     ELSE [r EXCEPT !.pc = "failed", !.error = "NotUploaded"]
    /\ UNCHANGED <<calls, tasks, inbox>>

\* if args.boot: await usb2snes.boot(usb2snes_filename)
MainBoot ==
    /\ run.pc = "boot"
    /\ \E f \in {0, 1} :
        LET out == boot(run.args.usb2snes_filename, f) IN
        /\ Perform("boot", run.args.usb2snes_filename, out)
        /\ run' = IF out.result = "ok" THEN [run EXCEPT !.pc = "done"]
                  ELSE Fail(out.result)
    /\ UNCHANGED <<calls, tasks, inbox>>

NextMain == MainAttach \/ MainCheck \/ MainPut \/ MainRecheck \/ MainBoot \/ Close

SpecMain == InitMain /\ [][NextMain]_vars

\* ================================================================== claims
\* The events appended by the most recent call
OpEvents == SubSeq(log, last.start + 1, Len(log))

\* The events the step being taken appends
NewEvents == SubSeq(log', Len(log) + 1, Len(log'))

\* The step is a call of one of `ops`
Calling(ops) == calls' = calls + 1 /\ last'.op \in ops

AttachedOnly == {"put_file", "boot", "list", "check_file_exists"}

Listing == {"list", "check_file_exists"}

AllOps == AttachedOnly \cup {"find_and_attach_device"}

IsFrame(e) == e.ev \in {"send_text", "send_bin"}

IsText(e, opcode) == e.ev = "send_text" /\ e.opcode = opcode

\* The remote-path dialect, in the words of the specification
InDialect(p) ==
    /\ Len(p) > 0
    /\ p[1] = "/"
    /\ \A i \in 1..Len(p) : p[i] # "\\"
    /\ (p[Len(p)] = "/" => Len(p) = 1)

\* The path a listing call validates and lists: the path itself for list,
\* its parent for check_file_exists, the empty string replaced by "/"
ListedPath(op, arg) ==
    LET q == IF op = "list" THEN arg ELSE PosixSplit(arg)[1]
    IN  IF q = <<>> THEN <<"/">> ELSE q

\* The device names of Devices that contain "SD2SNES" when upper-cased
MarkedDevices == {DevUpper, DevMixed}

\* ---- C1
\* C1 as stated: an attached-only operation called with no recorded device
\* sends no frame and fails with NotAttached.
C1_Original ==
    [][(device = None /\ Calling(AttachedOnly))
        => (log' = log /\ last'.result = "NotAttached")]_vars

\* C1 (amended): an attached-only operation called with no recorded device
\* appends no event (no frame sent, none received, no file touched) and
\* leaves the device absent; it fails with InvalidPath when it is a listing
\* call whose listed path violates the dialect, else with ConnectionClosed
\* when the transport is closed, else with NotAttached.
C1_NoFrameWhenUnattached ==
    [][(device = None /\ Calling(AttachedOnly))
        => /\ log' = log
           /\ device' = None
           /\ last'.result =
                IF last'.op \in Listing /\ ~InDialect(ListedPath(last'.op, last'.arg))
                THEN "InvalidPath"
                ELSE IF socket # "open" THEN "ConnectionClosed"
                ELSE "NotAttached"]_vars

\* An unattached client on an open transport was asked to boot a file
C1_Witness ==
    /\ device = None
    /\ socket = "open"
    /\ last.op = "boot"
    /\ last.result = "NotAttached"
    /\ log = <<>>

\* ---- C2
\* C2: a find_and_attach_device call on an open transport whose sends and
\* receive succeed and whose DeviceList response holds a marked device
\* appends exactly: the DeviceList text frame, the receipt of the response,
\* the Attach text frame whose sole operand is the first marked entry; that
\* entry is recorded as the device and returned; and a call returns without
\* error only in that way.
C2_Handshake ==
    last.op = "find_and_attach_device" =>
        LET ev == OpEvents
            answered == /\ Len(ev) >= 2
                        /\ ev[2].ev = "recv"
                        /\ ev[2].reply.kind = "results"
                        /\ \E i \in 1..Len(ev[2].reply.results) :
                                ev[2].reply.results[i] \in MarkedDevices
            sendsOk == \A i \in 1..Len(ev) : ev[i].ev # "send_failed"
        IN  /\ (answered /\ sendsOk) => last.result = "ok"
            /\ last.result = "ok" =>
                /\ Len(ev) = 3
                /\ ev[1] = TextFrame("DeviceList", <<>>)
                /\ answered
                /\ LET l == ev[2].reply.results IN
                   \E i \in 1..Len(l) :
                        /\ l[i] \in MarkedDevices
                        /\ \A j \in 1..(i - 1) : l[j] \notin MarkedDevices
                        /\ ev[3] = TextFrame("Attach", <<l[i]>>)
                        /\ device = l[i]
                        /\ last.ret = l[i]

\* The response listed two marked devices and the first was attached
C2_Witness ==
    /\ last.op = "find_and_attach_device"
    /\ last.result = "ok"
    /\ OpEvents[2].reply.results = <<DevMixed, DevUpper>>
    /\ device = DevMixed

\* ---- C3
\* C3 as stated: once set, the attached device never changes.
C3_Original == [][device # None => device' = device]_vars

\* C3 (amended): the attached device changes only in a find_and_attach_device
\* call that returns without error, and becomes the device that call
\* returns; no other call and no failing call changes it.  A second
\* handshake that succeeds overwrites the device recorded by the first.
C3_ChangedOnlyByHandshake ==
    [][device' # device
        => /\ Calling({"find_and_attach_device"})
           /\ last'.result = "ok"
           /\ device' = last'.ret
           /\ Last(log') = TextFrame("Attach", <<device'>>)]_vars

\* A second handshake replaced the device the first one recorded
C3_Witness ==
    /\ device # None
    /\ last.op = "find_and_attach_device"
    /\ \E i \in 1..Len(log) : IsText(log[i], "Attach") /\ log[i].operands # <<device>>

\* ---- C4
\* C4: a find_and_attach_device call that receives a DeviceList response with
\* no marked entry (the empty list included) fails with DeviceNotFound
\* carrying the response's list, sends no Attach frame, and leaves the
\* attached device as it was.
C4_DeviceNotFound ==
    [][(/\ Calling({"find_and_attach_device"})
        /\ Len(NewEvents) >= 2
        /\ NewEvents[2].ev = "recv"
        /\ NewEvents[2].reply.kind = "results"
        /\ \A i \in 1..Len(NewEvents[2].reply.results) :
                NewEvents[2].reply.results[i] \notin MarkedDevices)
        => /\ last'.result = "DeviceNotFound"
           /\ last'.ret = NewEvents[2].reply.results
           /\ NewEvents = <<TextFrame("DeviceList", <<>>), NewEvents[2]>>
           /\ device' = device]_vars

\* An attached client ran the handshake again and found no marked device
C4_Witness ==
    /\ last.op = "find_and_attach_device"
    /\ last.result = "DeviceNotFound"
    /\ last.ret = <<DevOther>>
    /\ device = DevUpper


\* ---- put_file: what a call's events say
IsBin(e) == e.ev = "send_bin"

IsRead(e) == e.ev = "read"

RECURSIVE SumLen(_)
SumLen(events) == IF events = <<>> THEN 0 ELSE Head(events).len + SumLen(Tail(events))

BinFrames(events) == SelectSeq(events, IsBin)

\* bytes sent in binary frames
BinTotal(events) == SumLen(BinFrames(events))

\* bytes the reads delivered
ReadTotal(events) == SumLen(SelectSeq(events, IsRead))

NoSendFailed(events) == \A i \in 1..Len(events) : events[i].ev # "send_failed"

SentPutFile(events) == \E i \in 1..Len(events) : IsText(events[i], "PutFile")

\* ---- C5
\* C5: a put_file call on an attached client whose transport is open and
\* stays open, with a valid remote path and a source that can be opened and
\* whose reads deliver exactly the S bytes stat reported, returns without
\* error having sent exactly ceil(S/1024) binary frames: frame i carries the
\* bytes from offset 1024*(i-1), each frame 1024 bytes long except the last,
\* which is S - 1024*(ceil(S/1024)-1) long; the bytes sent total S.
C5_ChunkedUpload ==
    [][(/\ device # None
        /\ socket = "open"
        /\ socket' = "open"
        /\ Calling({"put_file"})
        /\ InDialect(last'.arg)
        /\ Len(NewEvents) >= 2
        /\ NewEvents[1].ev = "stat"
        /\ NewEvents[2].ev = "open"
        /\ ReadTotal(NewEvents) = NewEvents[1].size)
        => LET S == NewEvents[1].size
               n == (S + 1023) \div 1024
               bins == BinFrames(NewEvents)
           IN  /\ last'.result = "ok"
               /\ Len(bins) = n
               /\ \A i \in 1..n :
                    /\ bins[i].off = 1024 * (i - 1)
                    /\ bins[i].len = IF i < n THEN 1024 ELSE S - 1024 * (n - 1)
               /\ BinTotal(NewEvents) = S]_vars

\* A 2500-byte source went out as frames of 1024, 1024 and 452 bytes
C5_Witness ==
    /\ last.op = "put_file"
    /\ last.result = "ok"
    /\ OpEvents[1] = StatOk(2500)
    /\ BinFrames(OpEvents) = <<BinFrame(0, 1024), BinFrame(1024, 1024), BinFrame(2048, 452)>>

\* ---- C6
\* C6: a put_file call returns without error only if the bytes it sent in
\* binary frames total the length stat reported; when the PutFile command
\* went out, no send failed and the reads delivered more or fewer bytes than
\* that length, the call fails with TransferSizeMismatch; and it fails so
\* only once the source is exhausted and every byte read has been sent.
C6_SizeCheck ==
    last.op = "put_file" =>
        LET ev == OpEvents IN
        /\ last.result = "ok" =>
                /\ ev[1].ev = "stat"
                /\ BinTotal(ev) = ev[1].size
        /\ (SentPutFile(ev) /\ NoSendFailed(ev) /\ ReadTotal(ev) # ev[1].size)
                => last.result = "TransferSizeMismatch"
        /\ last.result = "TransferSizeMismatch" =>
                /\ BinTotal(ev) = ReadTotal(ev)
                /\ BinTotal(ev) # ev[1].size
                /\ Last(ev).ev = "read"
                /\ Last(ev).len = 0

\* The source delivered more bytes than stat had reported; all were sent
C6_Witness ==
    /\ last.op = "put_file"
    /\ last.result = "TransferSizeMismatch"
    /\ OpEvents[1] = StatOk(452)
    /\ BinTotal(OpEvents) = 1024

\* ---- C7
\* C7 as stated: the path operand of every List, PutFile and Boot frame sent
\* is in the dialect, and a call given a violating path (on an attached
\* client with an open transport) fails with InvalidPath and sends no frame.
C7_Original ==
    /\ \A i \in 1..Len(log) :
            (log[i].ev = "send_text" /\ log[i].opcode \in {"List", "PutFile", "Boot"})
                => InDialect(log[i].operands[1])
    /\ (/\ last.op \in AttachedOnly
        /\ ~InDialect(last.arg)
        /\ device # None
        /\ socket = "open")
            => (last.result = "InvalidPath" /\ OpEvents = <<>>)

\* C7 (amended): the path operand of every List and PutFile frame sent is in
\* the dialect.  put_file given a violating path appends no event and fails,
\* with InvalidPath when the client is attached and the transport open; list
\* given a violating path other than the empty one appends no event and
\* fails with InvalidPath.  (boot validates nothing, check_file_exists
\* validates only the parent directory it lists, and list replaces the empty
\* path by "/".)
C7_ListAndPutFileValidated ==
    /\ [](\A i \in 1..Len(log) :
            (log[i].ev = "send_text" /\ log[i].opcode \in {"List", "PutFile"})
                => InDialect(log[i].operands[1]))
    /\ [][(Calling({"put_file"}) /\ ~InDialect(last'.arg))
            => /\ log' = log
               /\ last'.result =
                    IF socket # "open" THEN "ConnectionClosed"
                    ELSE IF device = None THEN "NotAttached"
                    ELSE "InvalidPath"]_vars
    /\ [][(Calling({"list"}) /\ ~InDialect(last'.arg) /\ last'.arg # <<>>)
            => (log' = log /\ last'.result = "InvalidPath")]_vars

\* An attached client refused to upload to a path ending with "/"
C7_Witness ==
    /\ device # None
    /\ socket = "open"
    /\ last.op = "put_file"
    /\ last.arg = PTrail
    /\ last.result = "InvalidPath"
    /\ OpEvents = <<>>

\* ---- C8
\* C8: a boot call on an attached client with an open transport validates
\* nothing: whatever the path, it either sends exactly one frame, the Boot
\* text frame whose sole operand is the path as given, and returns, or its
\* send raises and nothing is sent; it receives no frame and leaves the
\* device as it was.
C8_Boot ==
    [][(device # None /\ socket = "open" /\ Calling({"boot"}))
        => /\ device' = device
           /\ \/ /\ last'.result = "ok"
                 /\ NewEvents = <<TextFrame("Boot", <<last'.arg>>)>>
              \/ /\ last'.result = "TransportError"
                 /\ NewEvents = <<SendFailed>>]_vars

\* A path ending with "/" was sent unchanged in a Boot frame
C8_Witness ==
    /\ last.op = "boot"
    /\ last.arg = PTrail
    /\ last.result = "ok"
    /\ OpEvents = <<TextFrame("Boot", <<PTrail>>)>>

\* ---- C9
\* C9 as stated: with the transport closed every operation fails with
\* ConnectionClosed and sends no frame.
C9_Original ==
    [][(socket # "open" /\ Calling(AllOps))
        => (last'.result = "ConnectionClosed" /\ log' = log)]_vars

\* C9 (amended): with the transport closed every operation appends no event
\* and changes neither field; find_and_attach_device, put_file and boot fail
\* with ConnectionClosed, their guard being evaluated first (in put_file
\* before the path is validated and before the file is touched); list and
\* check_file_exists validate the listed path before the guard, so they
\* fail with InvalidPath when it violates the dialect and with
\* ConnectionClosed otherwise.
C9_ClosedTransport ==
    [][(socket # "open" /\ Calling(AllOps))
        => /\ log' = log
           /\ device' = device
           /\ socket' = socket
           /\ last'.result =
                IF last'.op \in Listing /\ ~InDialect(ListedPath(last'.op, last'.arg))
                THEN "InvalidPath"
                ELSE "ConnectionClosed"]_vars

\* On a closed transport put_file reported the closed connection, not the
\* invalid path it was given
C9_Witness ==
    /\ socket # "open"
    /\ last.op = "put_file"
    /\ last.arg = PTrail
    /\ last.result = "ConnectionClosed"

\* ---- C10
\* C10: a list call that receives a List response of even length returns
\* <<directories, files>> where the directories are exactly the names whose
\* type tag is "0" and the files the other names, each name once and in the
\* order of the response; for a response of odd length it fails with
\* ProtocolError and returns nothing.
C10_ListDecoding ==
    (/\ last.op = "list"
     /\ Len(OpEvents) = 2
     /\ OpEvents[2].ev = "recv"
     /\ OpEvents[2].reply.kind = "results")
    => LET resp == OpEvents[2].reply.results
           n == Len(resp) \div 2
           dirIdx == {i \in 1..n : resp[2 * i - 1] = <<"0">>}
           fileIdx == (1..n) \ dirIdx
           Rank(idx, i) == Cardinality({j \in idx : j <= i})
       IN  IF Len(resp) % 2 = 1
           THEN last.result = "ProtocolError" /\ last.ret = None
           ELSE /\ last.result = "ok"
                /\ Len(last.ret) = 2
                /\ Len(last.ret[1]) = Cardinality(dirIdx)
                /\ Len(last.ret[2]) = Cardinality(fileIdx)
                /\ \A i \in dirIdx : last.ret[1][Rank(dirIdx, i)] = resp[2 * i]
                /\ \A i \in fileIdx : last.ret[2][Rank(fileIdx, i)] = resp[2 * i]

\* Two files with different names came back in the order of the response
C10_Witness ==
    /\ last.op = "list"
    /\ last.result = "ok"
    /\ OpEvents[2].reply.results = <<<<"1">>, <<"a">>, <<"a">>, <<"0">>>>
    /\ last.ret = <<<<>>, <<<<"a">>, <<"0">>>>>>

\* ---- C11
\* The parent directory and the base name of the two paths the existence
\* checks are given: "a" lies in "" (listed as "/"), "/a/a" lies in "/a"
C11_Parent(path) == IF path = PRel THEN <<"/">> ELSE <<"/", "a">>

C11_Base(path) == <<"a">>

\* C11 as stated: check_file_exists returns true exactly when the response
\* holds an entry named as the base name whose type tag is not "0".
C11_Original ==
    (last.op = "check_file_exists" /\ last.result = "ok")
    => LET resp == OpEvents[2].reply.results IN
       last.ret = (\E i \in 1..(Len(resp) \div 2) :
                        /\ resp[2 * i] = C11_Base(last.arg)
                        /\ resp[2 * i - 1] # <<"0">>)

\* C11 (amended): a check_file_exists call that receives a List response
\* has sent exactly one frame, the List command for the parent directory of
\* its path (the empty parent replaced by "/"); for a response of even
\* length it returns false when no entry is named as the base name, and
\* otherwise whether the FIRST entry so named has a type tag other than "0"
\* (a later entry of the same name is never looked at); for a response of
\* odd length it fails with ProtocolError.
C11_FirstNamedEntryDecides ==
    (/\ last.op = "check_file_exists"
     /\ Len(OpEvents) = 2
     /\ OpEvents[2].ev = "recv"
     /\ OpEvents[2].reply.kind = "results")
    => LET resp == OpEvents[2].reply.results
           named == {i \in 1..(Len(resp) \div 2) : resp[2 * i] = C11_Base(last.arg)}
       IN  /\ OpEvents[1] = TextFrame("List", <<C11_Parent(last.arg)>>)
           /\ IF Len(resp) % 2 = 1
              THEN last.result = "ProtocolError"
              ELSE /\ last.result = "ok"
                   /\ named = {} => last.ret = FALSE
                   /\ \A i \in named :
                        (\A j \in named : i <= j)
                            => last.ret = (resp[2 * i - 1] # <<"0">>)

\* The name was listed twice, first as a directory and then as a file, and
\* the call answered false
C11_Witness ==
    /\ last.op = "check_file_exists"
    /\ last.arg = PRel
    /\ last.result = "ok"
    /\ OpEvents[2].reply.results = <<<<"0">>, <<"a">>, <<"a">>, <<"a">>>>
    /\ last.ret = FALSE

\* ---- C12
\* The number a string of lowercase hexadecimal digits denotes
C12_DigitValue(c) ==
    CASE c = "0" -> 0 [] c = "1" -> 1 [] c = "2" -> 2 [] c = "3" -> 3
      [] c = "4" -> 4 [] c = "5" -> 5 [] c = "6" -> 6 [] c = "7" -> 7
      [] c = "8" -> 8 [] c = "9" -> 9 [] c = "a" -> 10 [] c = "b" -> 11
      [] c = "c" -> 12 [] c = "d" -> 13 [] c = "e" -> 14 [] c = "f" -> 15

RECURSIVE C12_HexValue(_)
C12_HexValue(str) ==
    IF str = <<>> THEN 0
    ELSE 16 * C12_HexValue(SubSeq(str, 1, Len(str) - 1)) + C12_DigitValue(Last(str))

\* str is the lowercase hexadecimal numeral of n, with no prefix and no
\* leading zero
C12_IsHexOf(str, n) ==
    /\ Len(str) >= 1
    /\ \A i \in 1..Len(str) :
            str[i] \in {"0", "1", "2", "3", "4", "5", "6", "7", "8", "9",
                        "a", "b", "c", "d", "e", "f"}
    /\ (Len(str) > 1 => str[1] # "0")
    /\ C12_HexValue(str) = n

\* C12: the events of one put_file call hold at most one text frame and no
\* receive; a call that sent a binary frame, returned, or failed with
\* TransferSizeMismatch sent exactly one text frame, the PutFile command
\* whose operands are the remote path given and the length stat reported as
\* a lowercase hexadecimal numeral without prefix; it precedes every binary
\* frame, and everything sent after it is a binary frame.
C12_OnePutFileCommand ==
    last.op = "put_file" =>
        LET ev == OpEvents
            texts == {i \in 1..Len(ev) : ev[i].ev = "send_text"}
            bins == {i \in 1..Len(ev) : ev[i].ev = "send_bin"}
        IN  /\ Cardinality(texts) <= 1
            /\ \A i \in 1..Len(ev) : ev[i].ev \notin {"recv", "recv_failed"}
            /\ (bins # {} \/ last.result \in {"ok", "TransferSizeMismatch"})
                    => Cardinality(texts) = 1
            /\ \A i \in texts :
                    /\ ev[i].opcode = "PutFile"
                    /\ Len(ev[i].operands) = 2
                    /\ ev[i].operands[1] = last.arg
                    /\ ev[1].ev = "stat"
                    /\ C12_IsHexOf(ev[i].operands[2], ev[1].size)
                    /\ \A j \in bins : i < j

\* The command announced 2500 bytes as "9c4" and three binary frames followed
C12_Witness ==
    /\ last.op = "put_file"
    /\ last.result = "ok"
    /\ OpEvents[3] = TextFrame("PutFile", <<PFile, <<"9", "c", "4">>>>)
    /\ Cardinality({i \in 1..Len(OpEvents) : OpEvents[i].ev = "send_bin"}) = 3

\* ---- C13
\* C13: in a put_file call a send that raises is the call's last event: no
\* block is read and no frame is sent after it, the send is not tried
\* again, and the call ends with the transport's exception, not with
\* TransferSizeMismatch and not with a return.
C13_NoRetry ==
    last.op = "put_file" =>
        LET ev == OpEvents
            failures == {i \in 1..Len(ev) : ev[i].ev = "send_failed"}
        IN  /\ failures # {} =>
                /\ failures = {Len(ev)}
                /\ last.result = "TransportError"
                /\ socket # "open"
            /\ last.result = "TransportError" => failures # {}

\* The second binary frame's send raised after the first 1024 bytes went out
C13_Witness ==
    /\ last.op = "put_file"
    /\ last.result = "TransportError"
    /\ BinFrames(OpEvents) = <<BinFrame(0, 1024)>>
    /\ OpEvents[Len(OpEvents) - 1].ev = "read"
    /\ OpEvents[Len(OpEvents) - 1].off = 1024
    /\ Last(OpEvents) = SendFailed

\* ---- C14
\* C14: on an attached client with an open transport, put_file rejects its
\* remote path with InvalidPath exactly when the path is outside the dialect
\* (the empty path included) and otherwise goes on to stat the source; list
\* does the same for every path but the empty one, for which it sends the
\* List command for "/".
C14_PathValidation ==
    [][(device # None /\ socket = "open")
        => /\ Calling({"put_file"})
                => /\ (last'.result = "InvalidPath") = ~InDialect(last'.arg)
                   /\ InDialect(last'.arg) => (Len(NewEvents) >= 1 /\ NewEvents[1].ev = "stat")
           /\ Calling({"list"})
                => /\ (last'.result = "InvalidPath")
                        = (~InDialect(last'.arg) /\ last'.arg # <<>>)
                   /\ last'.result # "InvalidPath"
                        => NewEvents[1] =
                            TextFrame("List", <<IF last'.arg = <<>> THEN <<"/">>
                                                ELSE last'.arg>>)]_vars

\* list("") sent a List command for "/"
C14_Witness ==
    /\ last.op = "list"
    /\ last.arg = <<>>
    /\ last.result = "ok"
    /\ OpEvents[1] = TextFrame("List", <<<<"/">>>>)

\* ---- C15
\* C15 as stated: put_file sends the PutFile command before it opens the
\* source, so the command has gone out whenever the open is attempted.
C15_Original ==
    last.op = "put_file" =>
        \A i \in 1..Len(OpEvents) :
            OpEvents[i].ev \in {"open", "open_failed"}
                => \E j \in 1..(i - 1) : IsText(OpEvents[j], "PutFile")

\* C15 (amended): put_file validates the remote path, then queries the
\* length of the source, then opens the source, and only then sends the
\* PutFile command, which every read follows.  A path outside the dialect
\* ends the call before the source is touched; a source whose length can be
\* queried but that cannot be opened ends it with the file error after the
\* stat and the failed open, no frame having been sent.
C15_OpenBeforeCommand ==
    last.op = "put_file" =>
        LET ev == OpEvents IN
        /\ ~InDialect(last.arg) => ev = <<>>
        /\ \A i \in 1..Len(ev) :
            /\ ev[i].ev \in {"stat", "stat_failed"} => i = 1
            /\ ev[i].ev \in {"open", "open_failed"} => (i = 2 /\ ev[1].ev = "stat")
            /\ IsText(ev[i], "PutFile") => (i = 3 /\ ev[2].ev = "open")
            /\ ev[i].ev = "read" => (i > 3 /\ IsText(ev[3], "PutFile"))
            /\ ev[i].ev = "open_failed"
                    => (Len(ev) = 2 /\ last.result = "FileError")

\* The source could be measured but not opened: nothing was sent
C15_Witness ==
    /\ last.op = "put_file"
    /\ last.result = "FileError"
    /\ OpEvents = <<StatOk(452), OpenFailed>>

\* ---- C16
IsRecv(e) == e.ev \in {"recv", "recv_failed"}

IsQuery(e) == e.ev = "send_text" /\ e.opcode \in {"DeviceList", "List"}

\* C16: in the history of calls made one after another, every receive comes
\* directly after the send of a DeviceList or List command, and every such
\* command is directly followed by a receive; so before any point of the
\* history the receives number at most the commands that are answered, and
\* with a peer that answers each DeviceList and List command once and
\* nothing else, the frame a call receives is the answer to the command
\* that same call has just sent: the call's own events are the command and
\* the receipt, in that order.
C16_Alternation ==
    /\ \A i \in 1..Len(log) :
        /\ IsRecv(log[i]) => (i > 1 /\ IsQuery(log[i - 1]))
        /\ IsQuery(log[i]) => (i < Len(log) /\ IsRecv(log[i + 1]))
        /\ Cardinality({j \in 1..i : IsRecv(log[j])})
                <= Cardinality({j \in 1..i : IsQuery(log[j])})
    /\ (last.op \in Listing /\ last.result = "ok")
            => /\ Len(OpEvents) = 2
               /\ IsText(OpEvents[1], "List")
               /\ OpEvents[2].ev = "recv"
               /\ last.start + 2 = Len(log)

\* A handshake and then a listing, each with its own receive
C16_Witness ==
    /\ last.op = "list"
    /\ last.result = "ok"
    /\ Cardinality({j \in 1..Len(log) : IsRecv(log[j])}) = 2
    /\ \E i \in 1..Len(log) : IsText(log[i], "Attach")

\* ---- C18
\* C18: whenever a device is recorded, the history holds an Attach command
\* whose sole operand is that device, sent after the receipt of a DeviceList
\* response that lists it; and a call that fails, and every call of
\* put_file, boot, list or check_file_exists, leaves the recorded device as
\* it was.
C18_DeviceOnlyAfterAttach ==
    /\ [](device # None =>
            \E j \in 1..Len(log) :
                /\ log[j] = TextFrame("Attach", <<device>>)
                /\ j >= 3
                /\ log[j - 1].ev = "recv"
                /\ log[j - 1].reply.kind = "results"
                /\ \E k \in 1..Len(log[j - 1].reply.results) :
                        log[j - 1].reply.results[k] = device
                /\ log[j - 2] = TextFrame("DeviceList", <<>>))
    /\ [][(Calling(AttachedOnly) \/ (Calling(AllOps) /\ last'.result # "ok"))
            => device' = device]_vars

\* A handshake that got a malformed frame left the earlier attachment alone
C18_Witness ==
    /\ device # None
    /\ last.op = "find_and_attach_device"
    /\ last.result = "ProtocolError"

\* ---- C17
\* C17 as stated: a List command is rejected while another task still
\* awaits its response, so at most one task awaits at any time and no task
\* receives the reply to the other task's request.
C17_Original ==
    /\ Cardinality({t \in Tasks : tasks[t].pc = "awaiting"}) <= 1
    /\ \A t \in Tasks : tasks[t].got \in {"none", t}

\* the List commands sent by tasks before the one sent at log index n
TaskSendsBefore(n) == {u \in Tasks : tasks[u].sentAt # 0 /\ tasks[u].sentAt < n}

\* the frames received by tasks before the one received at log index n
TaskRecvsBefore(n) == {u \in Tasks : tasks[u].recvAt # 0 /\ tasks[u].recvAt < n}

\* C17 (amended): nothing at the API boundary rejects a second request.  A
\* task that calls a listing operation with a path of the dialect on an
\* attached client with an open transport sends its List command whether or
\* not another task still awaits a response; inbound frames are handed out
\* in the order they arrive, so the k-th frame a task receives is the reply
\* to the k-th List command sent, whichever task sent it, and a task can
\* receive the reply to the other task's request.
C17_NoGuardRepliesInOrder ==
    /\ [](\A t \in Tasks :
            tasks[t].got # "none" =>
                Cardinality(TaskSendsBefore(tasks[tasks[t].got].sentAt))
                    = Cardinality(TaskRecvsBefore(tasks[t].recvAt)))
    /\ [][\A t \in Tasks :
            (/\ tasks[t].pc = "idle"
             /\ tasks'[t].pc # "idle"
             /\ device # None
             /\ socket = "open"
             /\ InDialect(tasks'[t].path))
            => /\ tasks'[t].pc = "awaiting"
               /\ log' = Append(log, TextFrame("List", <<tasks'[t].path>>))]_vars

\* Both commands went out before any reply was taken, and task B took the
\* reply to task A's command
C17_Witness ==
    /\ tasks["B"].got = "A"
    /\ tasks["A"].sentAt # 0
    /\ tasks["B"].sentAt < tasks["B"].recvAt
    /\ tasks["A"].recvAt = 0

\* ---- C19
FrameAt(i, opcode) == i \in 1..Len(log) /\ IsText(log[i], opcode)

Sent(opcode) == \E i \in 1..Len(log) : FrameAt(i, opcode)

\* C19: in a run of main, a PutFile frame is sent only after the existence
\* check for the destination has returned, and only if it returned false or
\* --force was given; when it returned true and neither --force nor --ignore
\* was given the run has failed with the 'file already exists' error and
\* has sent neither a PutFile nor a Boot frame; when it returned true and
\* --ignore was given no PutFile frame is sent.
C19_NeverOverwrites ==
    /\ \A i \in 1..Len(log) :
        FrameAt(i, "PutFile") =>
            /\ run.file_exists = "False" \/ run.args.force
            /\ run.file_exists # "unset"
            /\ log[i].operands[1] = run.args.usb2snes_filename
            /\ \E j \in 1..(i - 1) :
                /\ log[j] = TextFrame("List",
                        <<ListedPath("check_file_exists", run.args.usb2snes_filename)>>)
                /\ log[j + 1].ev = "recv"
    /\ (run.file_exists = "True" /\ ~run.args.force /\ ~run.args.ignore)
            => /\ run.pc = "failed"
               /\ run.error = "FileExists"
               /\ ~Sent("PutFile")
               /\ ~Sent("Boot")
    /\ (run.file_exists = "True" /\ run.args.ignore) => ~Sent("PutFile")

\* The file exists and --ignore was given: the run skipped the upload and
\* went on to boot the file
C19_Witness ==
    /\ run.file_exists = "True"
    /\ run.args.ignore
    /\ run.pc = "done"
    /\ Sent("Boot")

\* ---- C20
\* the opcodes of the command frames sent so far, in order
Opcodes ==
    LET texts == SelectSeq(log, LAMBDA e : e.ev = "send_text")
    IN  [i \in 1..Len(texts) |-> texts[i].opcode]

IsPrefix(s, t) == Len(s) <= Len(t) /\ s = SubSeq(t, 1, Len(s))

\* C20 as stated: whenever an upload was performed (the PutFile frame was
\* sent) and the run is over with the transport still open, either put_file
\* returned without error and the existence check after it returned true,
\* or the run failed with 'file was not uploaded to device'.
C20_Original ==
    (/\ Sent("PutFile")
     /\ run.pc \in {"failed", "done"}
     /\ socket = "open")
        => \/ run.put = "ok" /\ run.recheck = "True"
           \/ run.pc = "failed" /\ run.error = "NotUploaded"

\* C20 (amended): the command frames of a run follow the order DeviceList,
\* Attach, List, then PutFile and List when an upload is made, then Boot; a
\* Boot frame is sent only when --boot is given, at most once, and nothing
\* follows it; when an upload was performed the Boot frame is sent only
\* after put_file returned without error and the existence check after it
\* returned true.  When that check returned false the run fails with 'file
\* was not uploaded to device'; when put_file or that check raised, the run
\* fails with the error raised; in each of these cases no Boot frame is
\* sent.
C20_BootLastAndOnlyAfterVerifiedUpload ==
    /\ \/ IsPrefix(Opcodes, <<"DeviceList", "Attach", "List", "PutFile", "List", "Boot">>)
       \/ IsPrefix(Opcodes, <<"DeviceList", "Attach", "List", "Boot">>)
    /\ \A i \in 1..Len(log) :
        FrameAt(i, "Boot") =>
            /\ run.args.boot
            /\ i = Len(log)
            /\ log[i].operands = <<run.args.usb2snes_filename>>
            /\ run.put # "unset" => (run.put = "ok" /\ run.recheck = "True")
    /\ (run.put = "ok" /\ run.recheck = "False")
            => (run.pc = "failed" /\ run.error = "NotUploaded" /\ ~Sent("Boot"))
    /\ run.put \notin {"unset", "ok"}
            => (run.pc = "failed" /\ run.error = run.put /\ run.recheck = "unset"
                /\ ~Sent("Boot"))
    /\ run.recheck = "raised"
            => (run.pc = "failed" /\ run.error \in {"ProtocolError", "TransportError",
                                                    "ConnectionClosed"}
                /\ ~Sent("Boot"))

\* An upload, its verification, and the boot as the run's last frame
C20_Witness ==
    /\ run.pc = "done"
    /\ run.put = "ok"
    /\ run.recheck = "True"
    /\ Opcodes = <<"DeviceList", "Attach", "List", "PutFile", "List", "Boot">>

====
